---- MODULE Spec2Model ----
(***************************************************************************)
(* A model of zgdbm (module/Src/psprint/zgdbm.c): the ztie / zuntie        *)
(* builtins that bind a zsh associative array to a GDBM file, the per-     *)
(* element get/set/unset hooks with their PM_UPTODATE cache, and the       *)
(* container hooks (lookup-or-create, key scan, bulk replace, teardown).   *)
(*                                                                         *)
(* Every C function is an operator from a "world" record (the program's    *)
(* state) to a world record, so that a handler that calls other handlers   *)
(* is the composition of their operators.  The shell runs at the global    *)
(* scope (locallevel = 0, no RESTRICTED / POSIXBUILTINS option).  The      *)
(* engine is libgdbm: store and delete succeed exactly on a handle opened  *)
(* as writer, and an open takes the file lock (one writer or many          *)
(* readers) per handle.                                                    *)
(***************************************************************************)
EXTENDS Integers, Sequences, FiniteSets, TLC

\* ------------------------------------------------------------- bounds
NumNames == 2     \* parameter names the shell session uses
NumKeys  == 2     \* distinct element keys
MaxArgs  == 2     \* names on one zuntie command line

Names == 1..NumNames
\* Two database files tell "the same file" from "another file".
Files == {1, 2}
Keys  == 1..NumKeys
Fds   == 1..NumNames          \* descriptors the process may hold for gdbm

\* A C string value is opaque to the program: 0 is "", 1 a non-empty string.
Empty == 0
Vals  == {Empty, 1}
\* char * NULL, and "no such key" in the engine.
NULL  == -1
NoVal == -1
NoKey == 0

\* ------------------------------------------------------------- data
\* struct param of one hash element: materialized in u.hash or not, its
\* u.str, and the PM_UPTODATE bit of node.flags.
NoEntry == [mat |-> FALSE, str |-> NULL, upt |-> FALSE]
NoHash  == [k \in Keys |-> NoEntry]

\* struct param of a name in paramtab.
\*   inTab  the node is in paramtab
\*   flags  node.flags
\*   gsu    which gsu table gsu.h / gsu.s points to
\*   hash   u.hash (the element table)
\*   ext    u.hash->tmpdata points to an allocated struct gsu_scalar_ext
\*   dbf    that struct's dbf field: 0 is NULL, else the handle
\*   val    the value of a variable this module did not create
AbsentParam ==
    [inTab |-> FALSE, flags |-> {}, gsu |-> "none", hash |-> NoHash,
     ext |-> FALSE, dbf |-> 0, val |-> 0]
PlainParam(ro) ==
    [inTab |-> TRUE, flags |-> IF ro THEN {"PM_READONLY"} ELSE {},
     gsu |-> "std", hash |-> NoHash, ext |-> FALSE, dbf |-> 0, val |-> 1]
\* A special parameter of the shell that was unset: it stays in paramtab.
UnsetSpecialParam ==
    [inTab |-> TRUE, flags |-> {"PM_SPECIAL", "PM_UNSET"},
     gsu |-> "std", hash |-> NoHash, ext |-> FALSE, dbf |-> 0, val |-> 0]

\* A GDBM_FILE, named by its descriptor.
NoHandle == [file |-> 0, mode |-> "closed"]
\* A database file on disk.
EmptyData == [k \in Keys |-> NoVal]
NoFile == [exists |-> FALSE, data |-> EmptyData]

VARIABLES
    params,     \* paramtab: Names -> struct param
    fdtable,    \* the shell's fdtable[]: Fds -> FDT_UNUSED / FDT_MODULE
    dbfs,       \* open engine handles: Fds -> [file, mode]
    file,       \* the database files: Files -> [exists, data]
    ub,         \* an engine call was made on a NULL or closed handle
    hung,       \* the shell is inside a loop that never ends
    leaked,     \* the last command dropped a struct gsu_scalar_ext unfreed
    sig,        \* gdbmhashsetfn in progress: its position, the signal queue
    ret,        \* exit status of the last builtin
    diag,       \* warnings the last builtin printed
    res,        \* what the last get / scan handed to its caller
    last        \* history: the last operation and its arguments

vars ==
    <<params, fdtable, dbfs, file, ub, hung, leaked, sig, ret, diag, res,
      last>>

\* The program state the C functions work on, as a command finds it.
World ==
    [params |-> params, fdtable |-> fdtable, dbfs |-> dbfs, file |-> file,
     ub |-> ub, hung |-> hung, leaked |-> FALSE]

\* ------------------------------------------------------------- libgdbm
IsOpen(w, dbf) == dbf \in Fds /\ w.dbfs[dbf].mode # "closed"

gdbm_exists(w, dbf, k) ==
    IsOpen(w, dbf) /\ w.file[w.dbfs[dbf].file].data[k] # NoVal

gdbm_fetch(w, dbf, k) ==
    IF IsOpen(w, dbf) THEN w.file[w.dbfs[dbf].file].data[k] ELSE NoVal

\* GDBM_REPLACE store: rejected on a reader handle.
gdbm_store(w, dbf, k, v) ==
    IF ~IsOpen(w, dbf) THEN [w EXCEPT !.ub = TRUE]
    ELSE IF w.dbfs[dbf].mode = "writer"
         THEN [w EXCEPT !.file[w.dbfs[dbf].file].data[k] = v]
         ELSE w

gdbm_delete(w, dbf, k) ==
    IF ~IsOpen(w, dbf) THEN [w EXCEPT !.ub = TRUE]
    ELSE IF w.dbfs[dbf].mode = "writer"
         THEN [w EXCEPT !.file[w.dbfs[dbf].file].data[k] = NoVal]
         ELSE w

\* The engine's key order is fixed by the file's contents; it is modelled
\* as ascending key order.
KeysIn(w, dbf) ==
    IF IsOpen(w, dbf)
    THEN {k \in Keys : w.file[w.dbfs[dbf].file].data[k] # NoVal}
    ELSE {}

MinOf(S) == IF S = {} THEN NoKey ELSE CHOOSE k \in S : \A j \in S : k <= j

gdbm_firstkey(w, dbf) == MinOf(KeysIn(w, dbf))

gdbm_nextkey(w, dbf, key) == MinOf({k \in KeysIn(w, dbf) : k > key})

\* The file lock the engine takes at open: a writer excludes every other
\* handle on the file, a reader excludes a writer.
LockFree(w, f, mode) ==
    \A d \in Fds :
        w.dbfs[d].file = f =>
            /\ w.dbfs[d].mode # "writer"
            /\ mode # "writer"

FreeFds(w) == {d \in Fds : w.dbfs[d].mode = "closed"}

\* gdbm_open(resource_name, 0, read_write, 0666, 0).  env is whether the
\* environment (permissions, locks of other processes) lets it succeed.
\* Returns the world and the handle, 0 for NULL.
gdbm_open(w, f, mode, env) ==
    IF \/ ~env
       \/ FreeFds(w) = {}
       \/ ~LockFree(w, f, mode)
       \/ (mode = "reader" /\ ~w.file[f].exists)
    THEN [w |-> w, dbf |-> 0]
    ELSE LET d == MinOf(FreeFds(w)) IN
         [w |-> [w EXCEPT !.dbfs[d] = [file |-> f, mode |-> mode],
                          !.file[f].exists = TRUE],
          dbf |-> d]

gdbm_close(w, dbf) ==
    IF ~IsOpen(w, dbf) THEN [w EXCEPT !.ub = TRUE]
    ELSE [w EXCEPT !.dbfs[dbf] = NoHandle]

\* ------------------------------------------------------------- element hooks
Elem(w, n, k) == w.params[n].hash[k]

\* The dbf an element hook reads through pm->gsu.s, which is the
\* container's u.hash->tmpdata.
ElemDbf(w, n) == w.params[n].dbf

\* getgdbmnode(ht, name): the entry for the key, created when missing,
\* without PM_UPTODATE.
getgdbmnode(w, n, k) ==
    IF Elem(w, n, k).mat THEN w
    ELSE [w EXCEPT !.params[n].hash[k] =
                       [mat |-> TRUE, str |-> NULL, upt |-> FALSE]]

\* Mutant: the engine is asked on every read, PM_UPTODATE or not.
gdbmgetfn_refetch(w, n, k) ==
    LET e   == Elem(w, n, k)
        dbf == ElemDbf(w, n)
    IN  IF ~IsOpen(w, dbf)
        THEN [w |-> [w EXCEPT !.ub = TRUE], val |-> Empty]
        ELSE IF gdbm_exists(w, dbf, k)
        THEN [w |-> [w EXCEPT !.params[n].hash[k] =
                         [mat |-> e.mat, str |-> gdbm_fetch(w, dbf, k),
                          upt |-> TRUE]],
              val |-> gdbm_fetch(w, dbf, k)]
        ELSE [w |-> w, val |-> Empty]

\* Mutant: a miss is cached as the empty string and marked PM_UPTODATE.
gdbmgetfn_cachemiss(w, n, k) ==
    LET e   == Elem(w, n, k)
        dbf == ElemDbf(w, n)
    IN  IF e.upt
        THEN [w |-> w, val |-> IF e.str # NULL THEN e.str ELSE Empty]
        ELSE IF ~IsOpen(w, dbf)
        THEN [w |-> [w EXCEPT !.ub = TRUE], val |-> Empty]
        ELSE IF gdbm_exists(w, dbf, k)
        THEN [w |-> [w EXCEPT !.params[n].hash[k] =
                         [mat |-> e.mat, str |-> gdbm_fetch(w, dbf, k),
                          upt |-> TRUE]],
              val |-> gdbm_fetch(w, dbf, k)]
        ELSE [w |-> [w EXCEPT !.params[n].hash[k] =
                         [mat |-> e.mat, str |-> Empty, upt |-> TRUE]],
              val |-> Empty]

\* gdbmgetfn(pm): returns the world and the string handed back.
gdbmgetfn(w, n, k) ==
    LET e   == Elem(w, n, k)
        dbf == ElemDbf(w, n)
    IN  IF e.upt
        THEN [w |-> w, val |-> IF e.str # NULL THEN e.str ELSE Empty]
        ELSE IF ~IsOpen(w, dbf)
        THEN [w |-> [w EXCEPT !.ub = TRUE], val |-> Empty]
        ELSE IF gdbm_exists(w, dbf, k)
        THEN [w |-> [w EXCEPT !.params[n].hash[k] =
                         [mat |-> e.mat, str |-> gdbm_fetch(w, dbf, k),
                          upt |-> TRUE]],
              val |-> gdbm_fetch(w, dbf, k)]
        ELSE [w |-> w, val |-> Empty]

\* Mutant: the new string is kept but the entry is not marked PM_UPTODATE.
SetCacheNoFlag(e, val) ==
    LET e1 == IF e.str # NULL THEN [e EXCEPT !.str = NULL, !.upt = FALSE]
              ELSE e
    IN  IF val # NULL THEN [e1 EXCEPT !.str = val] ELSE e1

\* Mutant: the old string is released but PM_UPTODATE is not cleared.
SetCacheKeepFlag(e, val) ==
    LET e1 == IF e.str # NULL THEN [e EXCEPT !.str = NULL] ELSE e
    IN  IF val # NULL THEN [e1 EXCEPT !.str = val, !.upt = TRUE] ELSE e1

\* The "Parameter" half of gdbmsetfn: release the old string, keep the new.
SetCache(e, val) ==
    LET e1 == IF e.str # NULL THEN [e EXCEPT !.str = NULL, !.upt = FALSE]
              ELSE e
    IN  IF val # NULL THEN [e1 EXCEPT !.str = val, !.upt = TRUE] ELSE e1

\* Mutant: an unset is not mirrored to the engine.
SetEngineNoDelete(w, dbf, k, val) ==
    IF dbf = 0 THEN w
    ELSE IF val # NULL THEN gdbm_store(w, dbf, k, val)
    ELSE w

\* Mutant: the store does not replace a pair the engine already holds
\* (GDBM_INSERT in place of GDBM_REPLACE).
SetEngineInsertOnly(w, dbf, k, val) ==
    IF dbf = 0 THEN w
    ELSE IF val # NULL
         THEN IF gdbm_exists(w, dbf, k) THEN w
              ELSE gdbm_store(w, dbf, k, val)
    ELSE gdbm_delete(w, dbf, k)

\* The "Database" half of gdbmsetfn.
SetEngine(w, dbf, k, val) ==
    IF dbf = 0 THEN w
    ELSE IF val # NULL THEN gdbm_store(w, dbf, k, val)
    ELSE gdbm_delete(w, dbf, k)

\* gdbmsetfn(pm, val); val is NULL for an unset.
gdbmsetfn(w, n, k, val) ==
    LET w1 == [w EXCEPT !.params[n].hash[k] = SetCache(Elem(w, n, k), val)]
    IN  SetEngine(w1, ElemDbf(w1, n), k, val)

gdbmunsetfn(w, n, k) == gdbmsetfn(w, n, k, NULL)

\* ------------------------------------------------------------- container hooks
\* One turn of the loop of scangdbmkeys: the entry for key, then func.
\* func reads the element's value (getstrvalue -> gdbmgetfn) when withVal,
\* and only its name otherwise.
ScanVisit(w, n, key, withVal) ==
    LET w1 == getgdbmnode(w, n, key)
        g  == gdbmgetfn(w1, n, key)
    IN  IF withVal THEN [w |-> g.w, item |-> [key |-> key, val |-> g.val]]
        ELSE [w |-> w1, item |-> [key |-> key, val |-> NULL]]

RECURSIVE ScanFrom(_, _, _, _, _)
ScanFrom(w, n, key, withVal, out) ==
    IF key = NoKey THEN [w |-> w, out |-> out]
    ELSE LET v == ScanVisit(w, n, key, withVal)
         IN  ScanFrom(v.w, n, gdbm_nextkey(v.w, ElemDbf(v.w, n), key),
                      withVal, Append(out, v.item))

\* Mutant: the scan walks the nodes of the table, as the shell's own
\* scanhashtable does, not the keys of the engine.
RECURSIVE ScanTable(_, _, _, _, _)
ScanTable(w, n, todo, withVal, out) ==
    IF todo = {} THEN [w |-> w, out |-> out]
    ELSE LET key == MinOf(todo)
             v   == ScanVisit(w, n, key, withVal)
         IN  ScanTable(v.w, n, todo \ {key}, withVal, Append(out, v.item))

scangdbmkeys_table(w, n, withVal) ==
    ScanTable(w, n, {k \in Keys : Elem(w, n, k).mat}, withVal, <<>>)

\* scangdbmkeys(ht, func, flags): returns the world and what func saw.
scangdbmkeys(w, n, withVal) ==
    ScanFrom(w, n, gdbm_firstkey(w, ElemDbf(w, n)), withVal, <<>>)

\* The drain loop of gdbmhashsetfn.  A turn that leaves the file as it was
\* is followed by the same turn again, without end.
RECURSIVE Drain(_, _)
Drain(w, dbf) ==
    LET key == gdbm_firstkey(w, dbf) IN
    IF key = NoKey THEN w
    ELSE LET w1 == gdbm_delete(w, dbf, key) IN
         IF w1.file = w.file THEN [w EXCEPT !.hung = TRUE]
         ELSE Drain(w1, dbf)

\* The store loop of gdbmhashsetfn over the nodes of the source table.
RECURSIVE StoreAll(_, _, _, _)
StoreAll(w, dbf, tab, todo) ==
    IF todo = {} THEN w
    ELSE LET k == MinOf(todo) IN
         StoreAll(gdbm_store(w, dbf, k, tab[k]), dbf, tab, todo \ {k})

\* A source table handed to the container's setfn: the container's own
\* table, NULL, or another table with its key/value pairs.
SelfHt == [kind |-> "self", tab |-> EmptyData]
NullHt == [kind |-> "null", tab |-> EmptyData]
OtherHt(tab) == [kind |-> "table", tab |-> tab]

\* gdbmhashsetfn(pm, ht)
gdbmhashsetfn(w, n, ht) ==
    IF ht.kind = "self" THEN w
    ELSE IF w.params[n].dbf = 0 THEN w
    ELSE LET dbf == w.params[n].dbf
             w1  == Drain(w, dbf)
         IN  IF w1.hung THEN w1
             ELSE IF ht.kind = "null" THEN w1
             ELSE StoreAll(w1, dbf, ht.tab,
                           {k \in Keys : ht.tab[k] # NoVal})

\* Mutant: the handle is closed but its fdtable slot stays marked.
gdbmuntie_keepSlot(w, n) ==
    LET dbf == w.params[n].dbf
        w1  == IF dbf # 0
               THEN [gdbm_close(w, dbf) EXCEPT !.params[n].dbf = 0]
               ELSE w
    IN  [w1 EXCEPT !.params[n].flags = @ \ {"PM_SPECIAL", "PM_READONLY"},
                   !.params[n].gsu = "stdhash_gsu"]

\* Mutant: PM_SPECIAL is left on the parameter, which the shell then
\* keeps in paramtab when it is unset.
gdbmuntie_keepSpecial(w, n) ==
    LET dbf == w.params[n].dbf
        w1  == IF dbf # 0
               THEN [gdbm_close([w EXCEPT !.fdtable[dbf] = "FDT_UNUSED"], dbf)
                         EXCEPT !.params[n].dbf = 0]
               ELSE w
    IN  [w1 EXCEPT !.params[n].flags = @ \ {"PM_READONLY"},
                   !.params[n].gsu = "stdhash_gsu"]

\* gdbmuntie(pm)
gdbmuntie(w, n) ==
    LET dbf == w.params[n].dbf
        w1  == IF dbf # 0
               THEN [gdbm_close([w EXCEPT !.fdtable[dbf] = "FDT_UNUSED"], dbf)
                         EXCEPT !.params[n].dbf = 0]
               ELSE w
    IN  [w1 EXCEPT !.params[n].flags = @ \ {"PM_SPECIAL", "PM_READONLY"},
                   !.params[n].gsu = "stdhash_gsu"]

\* ------------------------------------------------------------- the shell
\* freeparamnode(hn) under deleteparamtable (delunset set): the element's
\* unsetfn, then the node is freed.
freeparamnode(w, n, k) ==
    [gdbmunsetfn(w, n, k) EXCEPT !.params[n].hash[k] = NoEntry]

RECURSIVE deleteparamtable(_, _, _)
deleteparamtable(w, n, todo) ==
    IF todo = {} THEN w
    ELSE LET k == MinOf(todo) IN
         deleteparamtable(freeparamnode(w, n, k), n, todo \ {k})

\* hashsetfn(pm, NULL): delete the table with every element in it.
hashsetfn(w, n) ==
    deleteparamtable(w, n, {k \in Keys : Elem(w, n, k).mat})

\* zfree(gsu_ext, sizeof(struct gsu_scalar_ext))
zfree(w, n) ==
    IF w.params[n].ext THEN [w EXCEPT !.params[n].ext = FALSE]
    ELSE [w EXCEPT !.ub = TRUE]

\* stdunsetfn(pm, exp) of a hash.  The table is deleted with its tmpdata
\* pointer: a struct gsu_scalar_ext still hanging there is lost.
stdunsetfn(w, n) ==
    LET w1 == hashsetfn(w, n) IN
    [w1 EXCEPT !.leaked = @ \/ w1.params[n].ext,
               !.params[n].ext = FALSE,
               !.params[n].flags = @ \cup {"PM_UNSET"}]

\* Mutant: the elements are destroyed before the handle is detached.
gdbmhashunsetfn_elemsFirst(w, n) ==
    LET w1 == hashsetfn(w, n)
        w2 == zfree(gdbmuntie(w1, n), n)
    IN  [w2 EXCEPT !.params[n].flags = @ \cup {"PM_UNSET"}]

\* gdbmhashunsetfn(pm, exp)
gdbmhashunsetfn(w, n) ==
    LET w1 == gdbmuntie(w, n)
        w2 == zfree(hashsetfn(w1, n), n)
    IN  [w2 EXCEPT !.params[n].flags = @ \cup {"PM_UNSET"}]

\* pm->gsu.h->unsetfn(pm, exp)
unsetfn(w, n) ==
    IF w.params[n].gsu = "gdbm_hash_gsu" THEN gdbmhashunsetfn(w, n)
    ELSE IF w.params[n].gsu = "stdhash_gsu" THEN stdunsetfn(w, n)
    ELSE [w EXCEPT !.params[n].flags = @ \cup {"PM_UNSET"},
                   !.params[n].val = 0]

\* unsetparam_pm(pm, 0, 1): returns the world, the status and the error
\* printed.
unsetparam_pm(w, n) ==
    IF "PM_READONLY" \in w.params[n].flags
    THEN [w |-> w, rc |-> 1, msg |-> <<"read-only variable">>]
    ELSE LET w1 == IF "PM_UNSET" \notin w.params[n].flags
                   THEN unsetfn(w, n) ELSE w
         IN  IF w1.params[n].flags \cap {"PM_SPECIAL", "PM_REMOVABLE"}
                    = {"PM_SPECIAL"}
             THEN [w |-> w1, rc |-> 0, msg |-> <<>>]
             ELSE [w |-> [w1 EXCEPT !.params[n] = AbsentParam], rc |-> 0,
                   msg |-> <<>>]

\* ------------------------------------------------------------- lifecycle
\* createparam(name, PM_SPECIAL | PM_HASHED): NULL when the name is set or
\* special; a refused special loses its PM_UNSET.
createparam(w, n) ==
    LET pm == w.params[n] IN
    IF pm.inTab /\ ("PM_UNSET" \notin pm.flags \/ "PM_SPECIAL" \in pm.flags)
    THEN [w |-> [w EXCEPT !.params[n].flags = @ \ {"PM_UNSET"}], ok |-> FALSE]
    ELSE [w |-> [w EXCEPT !.params[n] =
                     [inTab |-> TRUE, flags |-> {"PM_SPECIAL", "PM_HASHED"},
                      gsu |-> "none", hash |-> NoHash, ext |-> FALSE,
                      dbf |-> 0, val |-> 0]],
          ok |-> TRUE]

\* createhash(name, flags): the flags argument is not used by the body.
createhash(w, n, pmflags) == createparam(w, n)

\* Mutant: the slot is released but the handle is left open.
ZtieCreateFailedNoClose(w, dbf) ==
    [w EXCEPT !.fdtable[dbf] = "FDT_UNUSED"]

\* The cleanup of bin_ztie when createhash returned NULL: the descriptor
\* slot is released and the handle closed.
ZtieCreateFailed(w, dbf) ==
    gdbm_close([w EXCEPT !.fdtable[dbf] = "FDT_UNUSED"], dbf)

\* Mutant: the engine is opened before the existing parameter is unset.
bin_ztie_openFirst(w, n, d, f, r, env) ==
    LET read_write == IF r THEN "reader" ELSE "writer"
        pmflags    == IF r THEN {"PM_REMOVABLE", "PM_READONLY"}
                      ELSE {"PM_REMOVABLE"}
    IN
    IF d = "none"
    THEN [w |-> w, ret |-> 1, msg |-> <<"you must pass -d">>]
    ELSE IF f = 0
    THEN [w |-> w, ret |-> 1, msg |-> <<"you must pass -f">>]
    ELSE IF d # "db/gdbm"
    THEN [w |-> w, ret |-> 1, msg |-> <<"unsupported backend type">>]
    ELSE
    LET op == gdbm_open(w, f, read_write, env) IN
    IF op.dbf = 0
    THEN [w |-> op.w, ret |-> 1, msg |-> <<"error opening database file">>]
    ELSE
    LET w0 == [op.w EXCEPT !.fdtable[op.dbf] = "FDT_MODULE"]
        un == IF w0.params[n].inTab /\ "PM_UNSET" \notin w0.params[n].flags
              THEN unsetparam_pm(w0, n)
              ELSE [w |-> w0, rc |-> 0, msg |-> <<>>]
    IN
    IF un.rc # 0
    THEN [w |-> ZtieCreateFailed(un.w, op.dbf), ret |-> 1, msg |-> un.msg]
    ELSE
    LET cr == createhash(un.w, n, pmflags) IN
    IF ~cr.ok
    THEN [w |-> ZtieCreateFailed(cr.w, op.dbf),
          ret |-> 1, msg |-> <<"cannot create the requested parameter">>]
    ELSE [w |-> [cr.w EXCEPT !.params[n].gsu = "gdbm_hash_gsu",
                             !.params[n].ext = TRUE,
                             !.params[n].dbf = op.dbf],
          ret |-> 0, msg |-> <<>>]

\* bin_ztie(nam, args, ops, func): returns the world, the exit status and
\* the warning printed.
bin_ztie(w, n, d, f, r, env) ==
    LET read_write == IF r THEN "reader" ELSE "writer"
        pmflags    == IF r THEN {"PM_REMOVABLE", "PM_READONLY"}
                      ELSE {"PM_REMOVABLE"}
    IN
    IF d = "none"
    THEN [w |-> w, ret |-> 1, msg |-> <<"you must pass -d">>]
    ELSE IF f = 0
    THEN [w |-> w, ret |-> 1, msg |-> <<"you must pass -f">>]
    ELSE IF d # "db/gdbm"
    THEN [w |-> w, ret |-> 1, msg |-> <<"unsupported backend type">>]
    ELSE
    LET un == IF w.params[n].inTab /\ "PM_UNSET" \notin w.params[n].flags
              THEN unsetparam_pm(w, n)
              ELSE [w |-> w, rc |-> 0, msg |-> <<>>]
    IN
    IF un.rc # 0 THEN [w |-> un.w, ret |-> 1, msg |-> un.msg]
    ELSE
    LET op == gdbm_open(un.w, f, read_write, env) IN
    IF op.dbf = 0
    THEN [w |-> op.w, ret |-> 1, msg |-> <<"error opening database file">>]
    ELSE
    LET w1 == [op.w EXCEPT !.fdtable[op.dbf] = "FDT_MODULE"]
        cr == createhash(w1, n, pmflags)
    IN
    IF ~cr.ok
    THEN [w |-> ZtieCreateFailed(cr.w, op.dbf),
          ret |-> 1, msg |-> <<"cannot create the requested parameter">>]
    ELSE [w |-> [cr.w EXCEPT !.params[n].gsu = "gdbm_hash_gsu",
                             !.params[n].ext = TRUE,
                             !.params[n].dbf = op.dbf],
          ret |-> 0, msg |-> <<>>]

\* Mutant: the hooks of the parameter are not compared with gdbm_hash_gsu.
UntieOneNoCheck(w, n, u) ==
    IF ~w.params[n].inTab
    THEN [w |-> w, rc |-> 1, msg |-> <<"cannot untie">>]
    ELSE unsetparam_pm(IF u THEN gdbmuntie(w, n) ELSE w, n)

\* One turn of the loop of bin_zuntie, for the name pmname.
UntieOne(w, n, u) ==
    IF ~w.params[n].inTab
    THEN [w |-> w, rc |-> 1, msg |-> <<"cannot untie">>]
    ELSE IF w.params[n].gsu # "gdbm_hash_gsu"
    THEN [w |-> w, rc |-> 1, msg |-> <<"not a tied gdbm hash">>]
    ELSE unsetparam_pm(IF u THEN gdbmuntie(w, n) ELSE w, n)

\* bin_zuntie(nam, args, ops, func): returns the world, the exit status and
\* the warnings printed.
RECURSIVE UntieLoop(_, _, _, _, _)
UntieLoop(w, args, u, r, msgs) ==
    IF args = <<>> THEN [w |-> w, ret |-> r, msg |-> msgs]
    ELSE LET one == UntieOne(w, Head(args), u) IN
         UntieLoop(one.w, Tail(args), u, IF one.rc # 0 THEN 1 ELSE r,
                   msgs \o one.msg)

\* Mutant: the loop is left at the first name that fails.
RECURSIVE UntieLoopBreak(_, _, _, _, _)
UntieLoopBreak(w, args, u, r, msgs) ==
    IF args = <<>> THEN [w |-> w, ret |-> r, msg |-> msgs]
    ELSE LET one == UntieOne(w, Head(args), u) IN
         IF one.rc # 0 THEN [w |-> one.w, ret |-> 1, msg |-> msgs \o one.msg]
         ELSE UntieLoopBreak(one.w, Tail(args), u, r, msgs \o one.msg)

bin_zuntie_stopAtFailure(w, args, u) == UntieLoopBreak(w, args, u, 0, <<>>)

bin_zuntie(w, args, u) == UntieLoop(w, args, u, 0, <<>>)

\* ------------------------------------------------------------- the session
Tied(n) == params[n].inTab /\ params[n].gsu = "gdbm_hash_gsu"
TiedFile(n) == dbfs[params[n].dbf].file
TiedMode(n) == dbfs[params[n].dbf].mode

\* History of the last operation: its name, the container and key it was
\* applied to, the value written (for an element unset: the string cached
\* before), an option or observation (-u of zuntie; with values, for a scan;
\* whether the engine held the key, for an element unset), and the mode of
\* the container's handle when the operation began.  For a scan, k is the
\* number of entries the table held before; for zuntie, the number of
\* containers that were tied before; for ztie, flag is whether the name was
\* tied in writer mode to the file the command names.
NoLast ==
    [op |-> "init", n |-> 0, k |-> 0, v |-> NULL, flag |-> FALSE,
     mode |-> "closed"]

Contents == [Keys -> Vals \cup {NoVal}]

\* No gdbmhashsetfn is running.  pc is the position in it; depth the
\* shell's queueing_enabled and d0 its value at entry; pending whether a
\* signal is queued; n and ht the arguments; todo the nodes of ht still to
\* store; entry the engine's pairs at entry; seen what a signal handler
\* that ran during the call found in the engine.
NoSig ==
    [pc |-> "idle", depth |-> 0, d0 |-> 0, pending |-> FALSE, n |-> 0,
     ht |-> NullHt, todo |-> {}, entry |-> EmptyData, seen |-> "none"]

\* The shell after the module is loaded: nothing is tied, no database file
\* exists yet, and each name is free or taken by a variable of the shell.
InitWith(kinds) ==
    /\ params \in [Names -> kinds]
    /\ fdtable = [d \in Fds |-> "FDT_UNUSED"]
    /\ dbfs = [d \in Fds |-> NoHandle]
    /\ file = [f \in Files |-> NoFile]
    /\ ub = FALSE
    /\ hung = FALSE
    /\ leaked = FALSE
    /\ sig = NoSig
    /\ ret = 0
    /\ diag = <<>>
    /\ res = <<>>
    /\ last = NoLast

Running == ~hung /\ ~ub

Commit(w) ==
    /\ params' = w.params
    /\ fdtable' = w.fdtable
    /\ dbfs' = w.dbfs
    /\ file' = w.file
    /\ ub' = w.ub
    /\ hung' = w.hung
    /\ leaked' = w.leaked

\* ztie -d d -f f [-r] n
Ztie(n, d, f, r, env) ==
    /\ Running
    /\ \E out \in {bin_ztie(World, n, d, f, r, env)} :
       /\ Commit(out.w)
       /\ ret' = out.ret
       /\ diag' = out.msg
    /\ res' = <<>>
    /\ sig' = sig
    /\ last' = [NoLast EXCEPT !.op = "ztie", !.n = n,
                              !.flag = /\ Tied(n)
                                       /\ TiedMode(n) = "writer"
                                       /\ TiedFile(n) = f]

\* zuntie [-u] args...
Zuntie(args, u) ==
    /\ Running
    /\ \E out \in {bin_zuntie(World, args, u)} :
       /\ Commit(out.w)
       /\ ret' = out.ret
       /\ diag' = out.msg
    /\ res' = <<>>
    /\ sig' = sig
    /\ last' = [NoLast EXCEPT !.op = "zuntie", !.n = args[1], !.flag = u,
                              !.k = Cardinality({n \in Names : Tied(n)}),
                              !.mode = IF Tied(args[1]) THEN TiedMode(args[1])
                                       ELSE "closed"]

\* unset n, by the shell
HostUnset(n) ==
    /\ Running
    /\ params[n].inTab
    /\ \E out \in {unsetparam_pm(World, n)} :
       /\ Commit(out.w)
       /\ ret' = out.rc
       /\ diag' = out.msg
    /\ res' = <<>>
    /\ sig' = sig
    /\ last' = [NoLast EXCEPT !.op = "unset", !.n = n,
                              !.mode = IF Tied(n) THEN TiedMode(n)
                                       ELSE "closed"]

\* $n[k]: getnode, then the element's getfn
Get(n, k) ==
    /\ Running
    /\ Tied(n)
    /\ \E out \in {gdbmgetfn(getgdbmnode(World, n, k), n, k)} :
       /\ Commit(out.w)
       /\ res' = <<[key |-> k, val |-> out.val]>>
    /\ sig' = sig
    /\ last' = [NoLast EXCEPT !.op = "get", !.n = n, !.k = k,
                              !.mode = TiedMode(n)]
    /\ UNCHANGED <<ret, diag>>

\* n[k]=v: getnode, then the element's setfn
Set(n, k, v) ==
    /\ Running
    /\ Tied(n)
    /\ Commit(gdbmsetfn(getgdbmnode(World, n, k), n, k, v))
    /\ res' = <<>>
    /\ sig' = sig
    /\ last' = [NoLast EXCEPT !.op = "set", !.n = n, !.k = k, !.v = v,
                              !.mode = TiedMode(n)]
    /\ UNCHANGED <<ret, diag>>

\* unset 'n[k]': getnode, the element's unsetfn, and the node is removed
UnsetElem(w, n, k) ==
    [gdbmunsetfn(getgdbmnode(w, n, k), n, k)
        EXCEPT !.params[n].hash[k] = NoEntry]

Unset(n, k) ==
    /\ Running
    /\ Tied(n)
    /\ Commit(UnsetElem(World, n, k))
    /\ res' = <<>>
    /\ sig' = sig
    /\ last' = [NoLast EXCEPT !.op = "unset_elem", !.n = n, !.k = k,
                              !.v = params[n].hash[k].str,
                              !.flag = gdbm_exists(World, params[n].dbf, k),
                              !.mode = TiedMode(n)]
    /\ UNCHANGED <<ret, diag>>

\* ${(k)n} / ${(kv)n}: the table's scantab
Enumerate(n, withVal) ==
    /\ Running
    /\ Tied(n)
    /\ \E out \in {scangdbmkeys(World, n, withVal)} :
       /\ Commit(out.w)
       /\ res' = out.out
    /\ sig' = sig
    /\ last' = [NoLast EXCEPT !.op = "scan", !.n = n, !.flag = withVal,
                              !.k = Cardinality({k \in Keys :
                                                    params[n].hash[k].mat}),
                              !.mode = TiedMode(n)]
    /\ UNCHANGED <<ret, diag>>

\* n=( ... ), n=() or an assignment from the container's own table
BulkReplace(n, ht) ==
    /\ Running
    /\ Tied(n)
    /\ Commit(gdbmhashsetfn(World, n, ht))
    /\ res' = <<>>
    /\ sig' = sig
    /\ last' = [NoLast EXCEPT !.op = "bulk", !.n = n,
                              !.mode = TiedMode(n)]
    /\ UNCHANGED <<ret, diag>>

Sources == {SelfHt, NullHt} \cup {OtherHt(c) : c \in Contents}

\* One container, bound to one file: the element and container hooks.
Init == InitWith({AbsentParam})

Next ==
    \/ \E r \in BOOLEAN : Ztie(1, "db/gdbm", 1, r, TRUE)
    \/ \E u \in BOOLEAN : Zuntie(<<1>>, u)
    \/ HostUnset(1)
    \/ \E k \in Keys : Get(1, k)
    \/ \E k \in Keys, v \in Vals : Set(1, k, v)
    \/ \E k \in Keys : Unset(1, k)
    \/ \E withVal \in BOOLEAN : Enumerate(1, withVal)
    \/ \E ht \in Sources : BulkReplace(1, ht)

Spec == Init /\ [][Next]_vars

\* Several names and files: the lifecycle commands with every kind of
\* argument, over variables of the shell and tied containers.
InitLife ==
    InitWith({AbsentParam, PlainParam(FALSE), PlainParam(TRUE),
              UnsetSpecialParam})

\* The command lines of ztie: the option combinations bin_ztie tells apart.
\* env (whether the environment lets the open succeed) only matters to a
\* command line that reaches the open.
TieArgs ==
    {[d |-> "none", f |-> 0], [d |-> "db/gdbm", f |-> 0],
     [d |-> "db/other", f |-> 1]}
    \cup {[d |-> "db/gdbm", f |-> f] : f \in Files}

NextLife ==
    \/ \E n \in Names, a \in TieArgs, r \in BOOLEAN :
          \E env \in {e \in BOOLEAN : e \/ (a.d = "db/gdbm" /\ a.f # 0)} :
              Ztie(n, a.d, a.f, r, env)
    \/ \E n \in Names, u \in BOOLEAN : Zuntie(<<n>>, u)
    \/ \E n \in Names : HostUnset(n)
    \/ Get(1, 1)

SpecLife == InitLife /\ [][NextLife]_vars

\* One container and the operations on its elements alone: reads, writes,
\* unsets and scans, between ties and unties.
NextCache ==
    \/ \E r \in BOOLEAN : Ztie(1, "db/gdbm", 1, r, TRUE)
    \/ \E u \in BOOLEAN : Zuntie(<<1>>, u)
    \/ \E k \in Keys : Get(1, k)
    \/ \E k \in Keys, v \in Vals : Set(1, k, v)
    \/ \E k \in Keys : Unset(1, k)
    \/ \E withVal \in BOOLEAN : Enumerate(1, withVal)

SpecCache == Init /\ [][NextCache]_vars

\* ------------------------------------------------- gdbmhashsetfn, step by step
\* The same hook as gdbmhashsetfn above, one statement at a time, with the
\* shell's signal queue: queue_signals() raises queueing_enabled,
\* unqueue_signals() lowers it and runs the queued handlers when it
\* reaches 0, and a signal that arrives while it is 0 runs its handler at
\* once.
SigDbf == params[sig.n].dbf
SigFinal == IF sig.ht.kind = "null" THEN EmptyData ELSE sig.ht.tab
\* The pairs in the file behind the handle.
SigData == file[dbfs[SigDbf].file].data

\* What a signal handler finds when it looks at the engine now: the pairs
\* of before the call, none (drained), those of the source table, or
\* something in between.
Observe ==
    IF SigData \in {sig.entry, EmptyData, SigFinal} THEN "whole"
    ELSE "partial"

Step(w, s) ==
    /\ Commit(w)
    /\ sig' = s
    /\ UNCHANGED <<ret, diag, res, last>>

\* unqueue_signals()
Unqueue(pc) ==
    IF sig.depth = 1 /\ sig.pending
    THEN [sig EXCEPT !.pc = pc, !.depth = 0, !.pending = FALSE,
                     !.seen = Observe]
    ELSE [sig EXCEPT !.pc = pc, !.depth = @ - 1]

\* Entry, the two early returns, and the first gdbm_firstkey.  d0 is the
\* queueing_enabled the caller holds.
BulkBegin(n, ht, d0) ==
    /\ Running /\ sig.pc = "idle"
    /\ Tied(n)
    /\ Step(World,
            IF ht.kind = "self" \/ params[n].dbf = 0
            THEN [NoSig EXCEPT !.depth = d0, !.d0 = d0, !.n = n, !.ht = ht]
            ELSE [NoSig EXCEPT !.pc = "drain", !.depth = d0, !.d0 = d0,
                               !.n = n, !.ht = ht,
                               !.entry = file[dbfs[params[n].dbf].file].data])

\* while (key.dptr) { queue_signals();
DrainTest ==
    /\ sig.pc = "drain"
    /\ Step(World,
            IF gdbm_firstkey(World, SigDbf) # NoKey
            THEN [sig EXCEPT !.pc = "drain_delete", !.depth = @ + 1]
            ELSE [sig EXCEPT !.pc = "reorganize"])

\* (void)gdbm_delete(dbf, key);
DrainDelete ==
    /\ sig.pc = "drain_delete"
    /\ Step(gdbm_delete(World, SigDbf, gdbm_firstkey(World, SigDbf)),
            [sig EXCEPT !.pc = "drain_unqueue"])

\* unqueue_signals(); key = gdbm_firstkey(dbf); }
DrainUnqueue ==
    /\ sig.pc = "drain_unqueue"
    /\ Step(World, Unqueue("drain"))

\* (void)gdbm_reorganize(dbf); if (!ht) return;
Reorganize ==
    /\ sig.pc = "reorganize"
    /\ Step(World,
            IF sig.ht.kind = "null" THEN [sig EXCEPT !.pc = "idle"]
            ELSE [sig EXCEPT !.pc = "store",
                             !.todo = {k \in Keys : sig.ht.tab[k] # NoVal}])

\* for (...) { ...; queue_signals();       and the return after the loop
StoreTest ==
    /\ sig.pc = "store"
    /\ Step(World,
            IF sig.todo # {}
            THEN [sig EXCEPT !.pc = "store_store", !.depth = @ + 1]
            ELSE [sig EXCEPT !.pc = "idle"])

\* (void)gdbm_store(dbf, key, content, GDBM_REPLACE);
StoreStore ==
    /\ sig.pc = "store_store"
    /\ LET k == MinOf(sig.todo) IN
       Step(gdbm_store(World, SigDbf, k, sig.ht.tab[k]),
            [sig EXCEPT !.pc = "store_unqueue", !.todo = @ \ {k}])

\* unqueue_signals(); }
StoreUnqueue ==
    /\ sig.pc = "store_unqueue"
    /\ Step(World, Unqueue("store"))

\* A signal arrives while the hook runs: it is queued, or its handler
\* runs at once.
Signal ==
    /\ sig.pc # "idle"
    /\ ~sig.pending /\ sig.seen = "none"
    /\ Step(World,
            IF sig.depth > 0 THEN [sig EXCEPT !.pending = TRUE]
            ELSE [sig EXCEPT !.seen = Observe])

\* The caller's own deferrals: none, or one (a caller that queues signals
\* around the assignment).
CallerDepths == {0, 1}

NextSig ==
    \/ sig.pc = "idle" /\ Ztie(1, "db/gdbm", 1, FALSE, TRUE)
    \/ sig.pc = "idle" /\ \E k \in Keys, v \in Vals : Set(1, k, v)
    \/ \E ht \in Sources, d0 \in CallerDepths : BulkBegin(1, ht, d0)
    \/ DrainTest
    \/ DrainDelete
    \/ DrainUnqueue
    \/ Reorganize
    \/ StoreTest
    \/ StoreStore
    \/ StoreUnqueue
    \/ Signal

SpecSig == Init /\ [][NextSig]_vars

\* zuntie with several names on the command line, over tied containers,
\* variables of the shell and free names.
ArgLists == UNION {[1..m -> Names] : m \in 1..MaxArgs}

\* Each name is free or a plain variable of the shell.
InitUntie == InitWith({AbsentParam, PlainParam(FALSE)})

NextUntie ==
    \/ \E n \in Names, r \in BOOLEAN : Ztie(n, "db/gdbm", 1, r, TRUE)
    \/ \E args \in ArgLists, u \in BOOLEAN : Zuntie(args, u)
    \/ Get(1, 1)

SpecUntie == InitUntie /\ [][NextUntie]_vars

\* ------------------------------------------------------------- properties
\* What a reference $n[k] hands back in world w.
GetIn(w, n, k) == gdbmgetfn(getgdbmnode(w, n, k), n, k)
\* The world after n[k]=v in world w.
SetIn(w, n, k, v) == gdbmsetfn(getgdbmnode(w, n, k), n, k, v)
\* The key/value contents of the file behind the container n.
DataOf(w, n) == w.file[w.dbfs[w.params[n].dbf].file].data

\* What $n[k] hands back after zuntie [-u] n and ztie -d db/gdbm -f f [-r] n.
AfterReTie(w, n, f, k, u, r) ==
    LET un == bin_zuntie(w, <<n>>, u)
        ti == bin_ztie(un.w, n, "db/gdbm", f, r, TRUE)
    IN  [ok |-> un.ret = 0 /\ ti.ret = 0, val |-> GetIn(ti.w, n, k).val]

\* C1: for a container tied in writer mode, in every state a sequence of
\* element sets and unsets can reach, zuntie (with or without -u) and the
\* shell's unset leave every database file exactly as it was, and a value
\* written to k (or its removal) is what $n[k] hands back after zuntie and
\* a new ztie of the same file.
C1_DurableThroughUntie ==
    \A n \in Names :
        (Tied(n) /\ TiedMode(n) = "writer") =>
            /\ \A u \in BOOLEAN : bin_zuntie(World, <<n>>, u).w.file = file
            /\ unsetparam_pm(World, n).w.file = file
            /\ \A k \in Keys, u \in BOOLEAN, r \in BOOLEAN :
                  /\ \A v \in Vals :
                        LET rt == AfterReTie(SetIn(World, n, k, v), n,
                                             TiedFile(n), k, u, r)
                        IN  rt.ok /\ rt.val = v
                  /\ LET rt == AfterReTie(UnsetElem(World, n, k), n,
                                          TiedFile(n), k, u, r)
                     IN  rt.ok /\ rt.val = Empty
                  /\ LET rt == AfterReTie(World, n, TiedFile(n), k, u, r)
                     IN  rt.ok /\ rt.val =
                             (IF DataOf(World, n)[k] = NoVal THEN Empty
                              ELSE DataOf(World, n)[k])

\* C1 witness: zuntie -u has torn down a writer container whose file holds
\* a value written through it.
C1_Witness ==
    /\ last.op = "zuntie" /\ last.flag /\ last.mode = "writer" /\ ret = 0
    /\ ~Tied(last.n)
    /\ \E k \in Keys : file[1].data[k] = 1

\* C2: on every tied container, writer or reader, $n[k] right after n[k]=v
\* hands back v.
C2_ReadYourWrite ==
    \A n \in Names :
        Tied(n) =>
            \A k \in Keys, v \in Vals :
                GetIn(SetIn(World, n, k, v), n, k).val = v

\* C2 witness: n[k]=v has acted on a reader handle, the engine did not take
\* the value, and the entry holds it.
C2_Witness ==
    /\ last.op = "set" /\ last.mode = "reader" /\ last.v = 1
    /\ Tied(last.n)
    /\ DataOf(World, last.n)[last.k] # 1
    /\ params[last.n].hash[last.k].str = 1

\* C3: on a container tied in writer mode, after unset n[k] (the hook alone,
\* or the hook and the removal of the node) the engine does not hold k, and
\* the next $n[k] hands back the empty string and leaves the entry not
\* up to date, whatever the entry was before.
C3_DeleteThenRead ==
    \A n \in Names :
        (Tied(n) /\ TiedMode(n) = "writer") =>
            \A k \in Keys :
                \A w1 \in {UnsetElem(World, n, k),
                           gdbmunsetfn(getgdbmnode(World, n, k), n, k)} :
                    /\ ~gdbm_exists(w1, w1.params[n].dbf, k)
                    /\ GetIn(w1, n, k).val = Empty
                    /\ ~Elem(GetIn(w1, n, k).w, n, k).upt
                    /\ Elem(GetIn(w1, n, k).w, n, k).str = NULL

\* C3 witness: unset n[k] has acted on a writer container whose entry was
\* cached and whose engine held the key; the engine holds it no more.
C3_Witness ==
    /\ last.op = "unset_elem" /\ last.mode = "writer"
    /\ last.flag /\ last.v = 1
    /\ Tied(last.n)
    /\ DataOf(World, last.n)[last.k] = NoVal

\* C4: a reassignment of the bound container from another table M leaves
\* the engine holding exactly M, whatever it held before, and a
\* reassignment from the container's own table leaves the engine as it was.
C4_BulkReplaceExact ==
    \A n \in Names :
        Tied(n) =>
            \A ht \in Sources :
                LET w1 == gdbmhashsetfn(World, n, ht) IN
                /\ ht.kind = "table" =>
                       (~w1.hung /\ DataOf(w1, n) = ht.tab)
                /\ ht.kind = "self" => w1.file = file

\* The keys a scan visited, in order.
VisitedKeys(out) == {out[i].key : i \in 1..Len(out)}

\* C5: a scan of a tied container visits exactly the keys the engine holds,
\* each once, whatever entries the table held before; a key that had no
\* entry is visited with the engine's value; and the engine is left as it
\* was.
C5_EnumerateEngineKeys ==
    \A n \in Names :
        Tied(n) =>
            \A withVal \in BOOLEAN :
                LET sc == scangdbmkeys(World, n, withVal) IN
                /\ VisitedKeys(sc.out) = KeysIn(World, params[n].dbf)
                /\ Len(sc.out) = Cardinality(KeysIn(World, params[n].dbf))
                /\ withVal =>
                       \A i \in 1..Len(sc.out) :
                           ~Elem(World, n, sc.out[i].key).mat =>
                               sc.out[i].val = DataOf(World, n)[sc.out[i].key]
                /\ sc.w.file = file

\* C5 witness: a scan with values has visited every key of a full engine
\* from a table that held no entry.
C5_Witness ==
    /\ last.op = "scan" /\ last.flag /\ last.k = 0
    /\ Len(res) = NumKeys
    /\ \A i \in 1..Len(res) : res[i].val = 1

\* C6: on a container tied with -r, n[k]=v leaves every file as it was,
\* the entry holds v and is up to date, and $n[k] hands back v, and goes
\* on to after further reads and scans, whatever the engine holds for k.
C6_ReadOnlyDivergence ==
    \A n \in Names :
        (Tied(n) /\ TiedMode(n) = "reader") =>
            \A k \in Keys, v \in Vals :
                LET w1 == SetIn(World, n, k, v)
                    g  == GetIn(w1, n, k)
                    sc == scangdbmkeys(g.w, n, TRUE)
                IN  /\ w1.file = file
                    /\ Elem(w1, n, k) = [mat |-> TRUE, str |-> v, upt |-> TRUE]
                    /\ g.val = v
                    /\ g.w = w1
                    /\ GetIn(sc.w, n, k).val = v

\* C6 witness: $n[k] on a reader container has handed back the value set
\* in this session while the engine holds none for k.
C6_Witness ==
    /\ last.op = "get" /\ last.mode = "reader"
    /\ Tied(last.n)
    /\ res = <<[key |-> last.k, val |-> 1]>>
    /\ DataOf(World, last.n)[last.k] = NoVal

\* C7: $n[k] never changes a database file; for a key the engine does not
\* hold and whose entry caches nothing, it hands back the empty string and
\* leaves the entry not up to date, again on the next read; the engine
\* still does not hold k afterwards; and no scan visits a key the engine
\* does not hold.
C7_ReadAbsentNoEffect ==
    \A n \in Names :
        Tied(n) =>
            \A k \in Keys :
                LET g == GetIn(World, n, k) IN
                /\ g.w.file = file
                /\ (~gdbm_exists(World, params[n].dbf, k)
                    /\ ~Elem(World, n, k).upt) =>
                       /\ g.val = Empty
                       /\ Elem(g.w, n, k) =
                              [mat |-> TRUE, str |-> NULL, upt |-> FALSE]
                       /\ GetIn(g.w, n, k) = [w |-> g.w, val |-> Empty]
                       /\ ~gdbm_exists(g.w, params[n].dbf, k)
                       /\ \A withVal \in BOOLEAN :
                              k \notin VisitedKeys(
                                  scangdbmkeys(g.w, n, withVal).out)

\* C7 witness: $n[k] has handed back the empty string for a key the engine
\* does not hold, and the entry it made is not up to date.
C7_Witness ==
    /\ last.op = "get"
    /\ Tied(last.n)
    /\ res = <<[key |-> last.k, val |-> Empty]>>
    /\ DataOf(World, last.n)[last.k] = NoVal
    /\ params[last.n].hash[last.k] =
           [mat |-> TRUE, str |-> NULL, upt |-> FALSE]

OpenFds(w) == {d \in Fds : w.dbfs[d].mode # "closed"}
TiedNames(w) ==
    {n \in Names : w.params[n].inTab /\ w.params[n].gsu = "gdbm_hash_gsu"}
SlotsInUse(w) == {d \in Fds : w.fdtable[d] = "FDT_MODULE"}

\* C8: after every ztie, zuntie and unset, failed or not, there are as many
\* open engine handles as tied containers; every tied container holds its
\* own open handle and no other parameter holds one; no handle was closed
\* or used after its close; and a slot of fdtable is marked exactly for the
\* descriptors of the open handles.
C8_HandleAccounting ==
    /\ ~ub
    /\ Cardinality(OpenFds(World)) = Cardinality(TiedNames(World))
    /\ \A n \in TiedNames(World) :
           params[n].ext /\ params[n].dbf \in OpenFds(World)
    /\ \A n, m \in TiedNames(World) :
           n # m => params[n].dbf # params[m].dbf
    /\ \A n \in Names \ TiedNames(World) : params[n].dbf = 0
    /\ SlotsInUse(World) = OpenFds(World)

\* C8 witness: zuntie -u has torn one container down while another one is
\* still tied with its handle open.
C8_Witness ==
    /\ last.op = "zuntie" /\ last.flag /\ ret = 0
    /\ ~Tied(last.n)
    /\ Cardinality(TiedNames(World)) = 1
    /\ Cardinality(OpenFds(World)) = 1

ValidationMsgs ==
    {<<"you must pass -d">>, <<"you must pass -f">>,
     <<"unsupported backend type">>}

\* What C9 says of a ztie that failed, but for the BindingRegistryEntry:
\* the status is 1; a validation failure or a refused unset changes
\* nothing; an open failure leaves the name untied and registers no slot;
\* a creation failure leaves the handles and slots as before the call.
FailedTieClean(w, n, out) ==
    /\ out.ret = 1
    /\ out.msg # <<>>
    /\ out.msg \in ValidationMsgs \cup {<<"read-only variable">>} =>
           out.w = w
    /\ out.msg = <<"error opening database file">> =>
           /\ n \notin TiedNames(out.w)
           /\ OpenFds(out.w) \subseteq OpenFds(w)
           /\ SlotsInUse(out.w) \subseteq SlotsInUse(w)
    /\ out.msg = <<"cannot create the requested parameter">> =>
           /\ n \notin TiedNames(out.w)
           /\ OpenFds(out.w) = OpenFds(w)
           /\ SlotsInUse(out.w) = SlotsInUse(w)
           /\ ~out.w.ub

\* C9 as stated: after every failing ztie the above holds and the name has
\* no BindingRegistryEntry.
C9_FailedTieNoEntry ==
    \A n \in Names, a \in TieArgs, r \in BOOLEAN, env \in BOOLEAN :
        LET out == bin_ztie(World, n, a.d, a.f, r, env) IN
        out.ret # 0 =>
            /\ FailedTieClean(World, n, out)
            /\ ~out.w.params[n].ext

\* C9 amended: after every failing ztie the above holds and the call has
\* allocated no BindingRegistryEntry: the name has none, unless the call
\* failed before it unset the name (validation), and then the name has the
\* parameter, entry and handle it had before.
C9_FailedTieNoNewEntry ==
    \A n \in Names, a \in TieArgs, r \in BOOLEAN, env \in BOOLEAN :
        LET out == bin_ztie(World, n, a.d, a.f, r, env) IN
        /\ out.ret = 0 => (out.msg = <<>> /\ n \in TiedNames(out.w))
        /\ out.ret # 0 =>
               /\ FailedTieClean(World, n, out)
               /\ out.w.params[n].ext =>
                      /\ out.msg \in ValidationMsgs
                      /\ n \in TiedNames(World)
                      /\ out.w = World

\* C9 witness: a ztie has failed at the creation of the container, after
\* it opened the engine, and no handle is left open.
C9_Witness ==
    /\ last.op = "ztie" /\ ret = 1
    /\ diag = <<"cannot create the requested parameter">>
    /\ file[1].exists
    /\ OpenFds(World) = {}

\* C10: zuntie (with or without -u) of a name that is in paramtab but is
\* not a container tied by ztie prints "not a tied gdbm hash", returns 1
\* and changes nothing: not the parameter, not any handle.
C10_UntieForeignName ==
    \A n \in Names :
        (params[n].inTab /\ params[n].gsu # "gdbm_hash_gsu") =>
            \A u \in BOOLEAN :
                LET out == bin_zuntie(World, <<n>>, u) IN
                /\ out.ret = 1
                /\ out.msg = <<"not a tied gdbm hash">>
                /\ out.w = World

\* C10 witness: zuntie -u of a variable of the shell has failed with that
\* warning while a container is tied, and the variable is as it was.
C10_Witness ==
    /\ last.op = "zuntie" /\ last.flag /\ ret = 1
    /\ diag = <<"not a tied gdbm hash">>
    /\ params[last.n] = PlainParam(FALSE)
    /\ OpenFds(World) # {}

\* C11: zuntie [-u] of a list of names tears down every listed name that
\* is a tied container (the parameter is gone and its handle closed),
\* whatever the other names of the list are; it leaves the names it was
\* not given as they were; it prints one warning per failed name; and it
\* returns 1 exactly when a name failed: one that is not a tied container
\* when its turn comes, which includes the second mention of a name.
C11_UntieListIndependent ==
    \A args \in ArgLists, u \in BOOLEAN :
        LET out    == bin_zuntie(World, args, u)
            listed == {args[i] : i \in 1..Len(args)}
            failed == {i \in 1..Len(args) :
                          \/ args[i] \notin TiedNames(World)
                          \/ \E j \in 1..(i - 1) : args[j] = args[i]}
        IN  /\ \A n \in listed \cap TiedNames(World) :
                   /\ ~out.w.params[n].inTab
                   /\ out.w.dbfs[params[n].dbf] = NoHandle
                   /\ out.w.fdtable[params[n].dbf] = "FDT_UNUSED"
            /\ \A n \in Names \ listed : out.w.params[n] = params[n]
            /\ \A n \in listed \ TiedNames(World) :
                   out.w.params[n] = params[n]
            /\ out.w.file = file
            /\ ~out.w.ub
            /\ out.ret = (IF failed = {} THEN 0 ELSE 1)
            /\ Len(out.msg) = Cardinality(failed)

\* C11 witness: a zuntie whose first name is a variable of the shell has
\* warned about it, returned 1, and torn down the container named after it.
C11_Witness ==
    /\ last.op = "zuntie" /\ ret = 1
    /\ diag = <<"not a tied gdbm hash">>
    /\ params[last.n] = PlainParam(FALSE)
    /\ Cardinality(TiedNames(World)) < last.k

\* C12: after a reassignment of a container tied in writer mode from
\* another table M, or from no table, $n[k] hands back M[k] for every key
\* of M and the empty string for every other key, whatever entries the
\* table held before.
C12_ReadsAfterBulkReplace ==
    \A n \in Names :
        (Tied(n) /\ TiedMode(n) = "writer") =>
            \A ht \in Sources \ {SelfHt} :
                LET w1 == gdbmhashsetfn(World, n, ht) IN
                \A k \in Keys :
                    GetIn(w1, n, k).val =
                        (IF ht.tab[k] = NoVal THEN Empty ELSE ht.tab[k])

\* The worlds the teardown paths of a tied container n end in: zuntie,
\* zuntie -u, the shell's unset, and the unset ztie does on a tied name
\* (seen through a ztie whose open then fails).
TeardownsOf(w, n) ==
    {bin_zuntie(w, <<n>>, FALSE).w,
     bin_zuntie(w, <<n>>, TRUE).w,
     unsetparam_pm(w, n).w,
     bin_ztie(w, n, "db/gdbm", 1, FALSE, FALSE).w}

\* C13: every teardown path of a tied container frees its struct
\* gsu_scalar_ext: none is dropped unfreed, none is freed twice or used
\* after it was freed, and afterwards the container has no entry, no
\* handle and no element.
C13_EntryFreedOnce ==
    /\ ~leaked
    /\ \A n \in Names :
           Tied(n) =>
               \A w1 \in TeardownsOf(World, n) :
                   /\ ~w1.leaked
                   /\ ~w1.ub
                   /\ ~w1.params[n].ext
                   /\ w1.dbfs[params[n].dbf] = NoHandle
                   /\ w1.params[n].hash = NoHash

\* C14: a container tied by ztie carries PM_SPECIAL and PM_REMOVABLE, and
\* carries PM_READONLY exactly when it was tied with -r (its handle is a
\* reader).
C14_ReadOnlyFlagAtTie ==
    \A n \in Names :
        Tied(n) =>
            /\ {"PM_SPECIAL", "PM_REMOVABLE"} \subseteq params[n].flags
            /\ ("PM_READONLY" \in params[n].flags) <=>
                   (TiedMode(n) = "reader")

\* C15: ztie of a name that is tied closes the old handle before it opens
\* the engine: the unset it begins with leaves the old handle closed and
\* its slot free; a new tie of the same file, in either mode, succeeds
\* when no other container holds that file; and after the call, failed or
\* not, the name holds at most one open handle and no handle is left
\* without a container.
C15_ReTieClosesFirst ==
    \A n \in TiedNames(World), r \in BOOLEAN :
        LET f   == TiedFile(n)
            un  == unsetparam_pm(World, n)
            out == bin_ztie(World, n, "db/gdbm", f, r, TRUE)
        IN  /\ un.rc = 0
            /\ un.w.dbfs[params[n].dbf] = NoHandle
            /\ un.w.fdtable[params[n].dbf] = "FDT_UNUSED"
            /\ (\A m \in TiedNames(World) \ {n} : TiedFile(m) # f) =>
                   /\ out.ret = 0
                   /\ n \in TiedNames(out.w)
                   /\ out.w.dbfs[out.w.params[n].dbf] =
                          [file |-> f,
                           mode |-> IF r THEN "reader" ELSE "writer"]
            /\ Cardinality(OpenFds(out.w)) = Cardinality(TiedNames(out.w))
            /\ Cardinality(OpenFds(out.w)) <= Cardinality(OpenFds(World))
            /\ ~out.w.ub

\* C15 witness: a name tied in writer mode was tied again to the same file
\* in writer mode, and the ztie succeeded.
C15_Witness ==
    /\ last.op = "ztie" /\ last.flag /\ ret = 0
    /\ Tied(last.n) /\ TiedMode(last.n) = "writer"
    /\ Cardinality(OpenFds(World)) = Cardinality(TiedNames(World))

\* C16: on a container tied in writer mode, after any sequence of element
\* reads, writes, unsets and scans, every entry that is PM_UPTODATE holds
\* the string the engine holds for its key, and the engine holds that key.
C16_CacheCoherent ==
    \A n \in Names :
        (Tied(n) /\ TiedMode(n) = "writer") =>
            \A k \in Keys :
                params[n].hash[k].upt =>
                    /\ DataOf(World, n)[k] # NoVal
                    /\ params[n].hash[k].str = DataOf(World, n)[k]

\* C16 witness: a write of the empty string through a writer container
\* has left the entry up to date with the empty string, which the engine
\* holds for the key, while another entry caches a non-empty string.
C16_Witness ==
    /\ last.op = "set" /\ last.mode = "writer" /\ last.v = Empty
    /\ Tied(last.n)
    /\ params[last.n].hash[last.k] =
           [mat |-> TRUE, str |-> Empty, upt |-> TRUE]
    /\ DataOf(World, last.n)[last.k] = Empty
    /\ \E j \in Keys :
           /\ params[last.n].hash[j] = [mat |-> TRUE, str |-> 1, upt |-> TRUE]
           /\ DataOf(World, last.n)[j] = 1

\* An entry is PM_UPTODATE exactly when it holds a string.
FlagIffCached(e) == e.upt <=> (e.str # NULL)

\* C20: in every state reachable by ties, element reads, writes, unsets,
\* scans, reassignments and teardowns, every entry of every table is
\* PM_UPTODATE exactly when it holds a string; and so is every entry right
\* after each hook has run on it: the lookup, the get, the set and the
\* unset hook (before the shell removes the node).
C20_FlagIffCache ==
    \A n \in Names, k \in Keys :
        /\ FlagIffCached(params[n].hash[k])
        /\ Tied(n) =>
               LET w0 == getgdbmnode(World, n, k) IN
               /\ FlagIffCached(Elem(w0, n, k))
               /\ FlagIffCached(Elem(gdbmgetfn(w0, n, k).w, n, k))
               /\ FlagIffCached(Elem(gdbmunsetfn(w0, n, k), n, k))
               /\ \A v \in Vals :
                      FlagIffCached(Elem(gdbmsetfn(w0, n, k, v), n, k))

\* C20 witness: a read has fetched a string into an entry, which is now up
\* to date, while another entry of the table, made by a read that missed,
\* holds no string and is not up to date.
C20_Witness ==
    /\ last.op = "get"
    /\ Tied(last.n)
    /\ params[last.n].hash[last.k] = [mat |-> TRUE, str |-> 1, upt |-> TRUE]
    /\ \E j \in Keys :
           params[last.n].hash[j] = [mat |-> TRUE, str |-> NULL, upt |-> FALSE]

\* C17: a signal handler that runs while gdbmhashsetfn is at work finds
\* the engine as it was at entry, or drained, or holding the source
\* table, never partly drained or partly stored; and when the hook has
\* returned queueing_enabled is what it was at entry.
C17_BulkAtomicUnderSignals ==
    /\ sig.seen # "partial"
    /\ sig.pc = "idle" => sig.depth = sig.d0

\* C18: a reassignment of a tied container returns, whatever the engine
\* holds and whatever the mode of the handle: the drain loop is never
\* caught in a turn that leaves the engine as it found it.
C18_BulkReplaceTerminates ==
    /\ ~hung
    /\ \A n \in Names :
           Tied(n) =>
               \A ht \in Sources : ~gdbmhashsetfn(World, n, ht).hung

\* A variable is set under the name n: a plain one or a tied container.
IsSet(w, n) == w.params[n].inTab /\ "PM_UNSET" \notin w.params[n].flags

\* C19 as stated: after every failing ztie of a name under which a
\* variable was set, that variable is as it was: the same parameter, and
\* for a tied one the same open handle.
C19_FailedTieKeepsVariable ==
    \A n \in Names, a \in TieArgs, r \in BOOLEAN, env \in BOOLEAN :
        LET out == bin_ztie(World, n, a.d, a.f, r, env) IN
        (out.ret # 0 /\ IsSet(World, n)) =>
            /\ out.w.params[n] = params[n]
            /\ out.w.dbfs = dbfs

\* C19 amended: a ztie that fails at the checks of its options, or
\* because the variable set under the name refuses to be unset, leaves
\* everything as it was; one that fails later, at the open of the engine
\* or the creation of the container, has already unset that variable: the
\* name is free, or is a special parameter of the shell left without its
\* value; a container that was tied to it has its handle closed and its
\* entry freed; the other names are as before and no pair of any file
\* has changed.
C19_FailedTieKeepsOrUnsets ==
    \A n \in Names, a \in TieArgs, r \in BOOLEAN, env \in BOOLEAN :
        LET out == bin_ztie(World, n, a.d, a.f, r, env) IN
        (out.ret # 0 /\ IsSet(World, n)) =>
            IF out.msg \in ValidationMsgs \cup {<<"read-only variable">>}
            THEN out.w = World
            ELSE /\ out.msg \in {<<"error opening database file">>,
                                  <<"cannot create the requested parameter">>}
                 /\ \/ out.w.params[n] = AbsentParam
                    \/ /\ "PM_SPECIAL" \in params[n].flags
                       /\ \E fl \in {{"PM_SPECIAL"},
                                      {"PM_SPECIAL", "PM_UNSET"}} :
                              out.w.params[n] =
                                  [UnsetSpecialParam EXCEPT !.flags = fl]
                 /\ n \in TiedNames(World) =>
                        /\ out.w.params[n] = AbsentParam
                        /\ out.w.dbfs[params[n].dbf] = NoHandle
                        /\ out.w.fdtable[params[n].dbf] = "FDT_UNUSED"
                 /\ \A m \in Names \ {n} : out.w.params[m] = params[m]
                 /\ \A f \in Files : out.w.file[f].data = file[f].data
                 /\ ~out.w.ub /\ ~out.w.leaked

\* C19 witness: a ztie of a name that was tied in writer mode to the file
\* it names has failed at the open, and the name is free.
C19_Witness ==
    /\ last.op = "ztie" /\ last.flag /\ ret = 1
    /\ diag = <<"error opening database file">>
    /\ params[last.n] = AbsentParam
    /\ file[1].exists \/ file[2].exists

====
